---- MODULE Spec2Model ----
(***************************************************************************)
(* Model of scrape_titulados.py: the fetcher with bounded retries, the     *)
(* index and table parsers, the category worker and the coordinator that   *)
(* runs the workers on a thread pool and tallies their outcomes.           *)
(*                                                                         *)
(* Texts (labels, addresses, cell texts) are sequences of pieces; a piece  *)
(* is a string standing for a run of characters.  "x in text" of the code  *)
(* is membership of the piece x in the sequence.                           *)
(***************************************************************************)
EXTENDS Integers, Sequences, FiniteSets, TLC

(* ---- program constants (scrape_titulados.py:19-24) ---- *)
MAX_WORKERS == 5
RETRIES == 2
BASE_URL == <<"http", "s", ":", "/", "/", "escolar1.rhon.itam.mx", "/", "titulacion">>
PROGRAMAS_URL == BASE_URL \o <<"/", "programas.asp">>
OUTPUT_DIR == <<"output">>

(* ---- bounds of the model ---- *)
MaxCats == 2       \* categories listed by the index page under Spec
PoolCats == 6      \* categories listed by the index page under SpecPool
MaxRows == 1       \* data rows of a listing page
MaxTables == 3     \* tables of a document given to a parser on its own
MaxTrs == 3        \* rows of a table given to parse_titulados_table on its own
MaxTokens == 5     \* tokens of a name given to split_name on its own
MaxRecords == 2    \* data rows of the page given to scrape_career for its file

(* ---- texts ---- *)
None == <<>>
Contains(text, piece) == \E i \in 1..Len(text) : text[i] = piece
Whitespace == {" ", "\t"}

RECURSIVE LStrip(_)
LStrip(text) ==
  IF text # <<>> /\ Head(text) \in Whitespace THEN LStrip(Tail(text)) ELSE text

RECURSIVE RStrip(_)
RStrip(text) ==
  IF text # <<>> /\ text[Len(text)] \in Whitespace
    THEN RStrip(SubSeq(text, 1, Len(text) - 1))
    ELSE text

Strip(text) == RStrip(LStrip(text))

UpperPiece(p) ==
  CASE p = "Licenciatura" -> "LICENCIATURA"
    [] p = "Doctorado" -> "DOCTORADO"
    [] p = "Maestria" -> "MAESTRIA"
    [] OTHER -> p

Upper(text) == [i \in 1..Len(text) |-> UpperPiece(text[i])]

RECURSIVE Join(_, _)
Join(sep, texts) ==
  IF texts = <<>> THEN <<>>
  ELSE IF Len(texts) = 1 THEN texts[1]
  ELSE texts[1] \o sep \o Join(sep, Tail(texts))

(* ---- encodings ---- *)
Charsets == {"utf-8", "iso-8859-1", "utf-16"}
Accented == {"Í", "Ó", "É", "Á", "ñ", "ó"}

\* an accented character read under the wrong single-byte/multi-byte codec
MojiPiece(p, codec) ==
  IF p \notin Accented THEN p
  ELSE IF codec = "utf-8" THEN "\\ufffd"
  ELSE CASE p = "Í" -> "Ã\\x8d"
         [] p = "Ó" -> "Ã\\x93"
         [] p = "É" -> "Ã\\x89"
         [] p = "Á" -> "Ã\\x81"
         [] p = "ñ" -> "Ã±"
         [] p = "ó" -> "Ã³"

MojiText(text, codec) == [i \in 1..Len(text) |-> MojiPiece(text[i], codec)]
MojiCells(cells, codec) == [i \in 1..Len(cells) |-> MojiText(cells[i], codec)]
MojiTable(t, codec) ==
  [header |-> MojiCells(t.header, codec),
   rows |-> [r \in 1..Len(t.rows) |-> MojiCells(t.rows[r], codec)],
   anchors |-> [a \in 1..Len(t.anchors) |->
                  [href |-> t.anchors[a].href,
                   text |-> MojiText(t.anchors[a].text, codec)]]]

\* resp.text: the body decoded with the codec in resp.encoding.  The right
\* codec gives the document; a wrong single-byte guess garbles the accented
\* characters only; reading across utf-16 leaves no markup to parse.
Decode(bytes, codec) ==
  IF codec = bytes.enc THEN bytes.doc
  ELSE IF codec = "utf-16" \/ bytes.enc = "utf-16" THEN <<>>
  ELSE [t \in 1..Len(bytes.doc) |-> MojiTable(bytes.doc[t], codec)]

(* ---- responses ---- *)
NoBytes == [enc |-> "utf-8", doc |-> <<>>]
NoResp == [status |-> "none", declared |-> "none", apparent |-> "none", bytes |-> NoBytes]
Failures == {"timeout", "connection", "http_status"}
Failed(cause) == [status |-> cause, declared |-> "none", apparent |-> "none", bytes |-> NoBytes]
Ok(declared, apparent, bytes) ==
  [status |-> "ok", declared |-> declared, apparent |-> apparent, bytes |-> bytes]

(* ---- get_latest_html (scrape_titulados.py:27-44) ---- *)
\* the frame of one call: its arguments, the loop variable attempt, the
\* number of GETs issued, the response the call ended on (wire), and what it
\* returned (text, decoded with codec) or raised (err)
NewCall(url, force) ==
  [url |-> url, force |-> force, attempt |-> 0, gets |-> 0, wire |-> NoResp,
   state |-> "loop", codec |-> "none", text |-> <<>>, err |-> None]

NoCall == [NewCall(<<>>, "none") EXCEPT !.state = "idle"]

\* the codec with the detector's answer put before the declared charset
Mut_Encoding(force, resp) ==
  IF force # "none" THEN force
  ELSE IF resp.apparent # "none" THEN resp.apparent
  ELSE IF resp.declared # "none" THEN resp.declared
  ELSE "utf-8"

\* lines 33-36: the codec resp.text is decoded with
Encoding(force, resp) ==
  IF force # "none" THEN force
  ELSE IF resp.declared = "none"
    THEN (IF resp.apparent # "none" THEN resp.apparent ELSE "utf-8")
    ELSE resp.declared

\* line 43: the RuntimeError raised after the last attempt
RuntimeError(url, cause) == <<"Failed to fetch", url, cause>>

\* the attempt budget of the loop at line 40
Mut_MayRetry(attempt) == attempt < RETRIES - 1
MayRetry(attempt) == attempt < RETRIES

\* one iteration of the loop of lines 29-43, on the response resp of its GET
get_latest_html(call, resp) ==
  LET got == [call EXCEPT !.gets = @ + 1] IN
  IF resp.status = "ok"
    THEN LET codec == Encoding(call.force, resp) IN
         [got EXCEPT !.state = "returned", !.wire = resp, !.codec = codec,
                     !.text = Decode(resp.bytes, codec)]
    ELSE IF MayRetry(call.attempt)
      THEN [got EXCEPT !.attempt = @ + 1]
      ELSE [got EXCEPT !.state = "raised", !.wire = resp,
                       !.err = RuntimeError(call.url, resp.status)]

(* ---- sanitize_filename (scrape_titulados.py:47-51) ---- *)
Unsafe == {"<", ">", ":", "\"", "/", "\\", "|", "?", "*"}

sanitize_filename(name) ==
  LET sanitized == [i \in 1..Len(name) |-> IF name[i] \in Unsafe THEN "_" ELSE name[i]] IN
  IF Strip(sanitized) # <<>> THEN Strip(sanitized) ELSE <<"unknown">>

(* ---- parse_programas (scrape_titulados.py:54-92) ---- *)
\* lines 84-89: the address of a collected anchor
ResolveHref(href) ==
  IF href[1] = "http" THEN href
  ELSE IF href[1] = "/" THEN <<"http", "s", ":", "/", "/", "escolar1.rhon.itam.mx">> \o href
  ELSE BASE_URL \o <<"/">> \o href

\* lines 77-90: the (name, url) pairs of the anchors of one table, from anchor i on
RECURSIVE TableLinks(_, _)
TableLinks(anchors, i) ==
  IF i > Len(anchors) THEN <<>>
  ELSE LET href == Strip(anchors[i].href)
           name == Strip(anchors[i].text)
       IN IF ~Contains(href, "titulados.asp") \/ ~Contains(href, "prog=") \/ name = <<>>
            THEN TableLinks(anchors, i + 1)
            ELSE <<[name |-> name, url |-> ResolveHref(href)]>> \o TableLinks(anchors, i + 1)

\* the loop with "continue" in place of the "break" of line 72
RECURSIVE Mut_ProgramasScanOn(_, _)
Mut_ProgramasScanOn(doc, i) ==
  IF i > Len(doc) THEN <<>>
  ELSE IF Len(doc[i].header) # 1 THEN Mut_ProgramasScanOn(doc, i + 1)
  ELSE IF Upper(Strip(doc[i].header[1])) # <<"LICENCIATURA">>
    THEN Mut_ProgramasScanOn(doc, i + 1)
  ELSE TableLinks(doc[i].anchors, 1) \o Mut_ProgramasScanOn(doc, i + 1)

\* the loop with a flag set by LICENCIATURA and kept for the tables after it
RECURSIVE FlagScan(_, _, _)
FlagScan(doc, i, on) ==
  IF i > Len(doc) THEN <<>>
  ELSE IF Len(doc[i].header) # 1 THEN FlagScan(doc, i + 1, on)
  ELSE IF Upper(Strip(doc[i].header[1])) = <<"DOCTORADO">> THEN <<>>
  ELSE IF on \/ Upper(Strip(doc[i].header[1])) = <<"LICENCIATURA">>
    THEN TableLinks(doc[i].anchors, 1) \o FlagScan(doc, i + 1, TRUE)
  ELSE FlagScan(doc, i + 1, on)

Mut_ProgramasScanFlag(doc, i) == FlagScan(doc, i, FALSE)

\* lines 63-90: the loop over the tables of the document, from table i on
RECURSIVE ProgramasScan(_, _)
ProgramasScan(doc, i) ==
  IF i > Len(doc) THEN <<>>
  ELSE IF Len(doc[i].header) # 1 THEN ProgramasScan(doc, i + 1)
  ELSE LET section_name == Upper(Strip(doc[i].header[1])) IN
       IF section_name = <<"DOCTORADO">> THEN <<>>
       ELSE IF section_name # <<"LICENCIATURA">> THEN ProgramasScan(doc, i + 1)
       ELSE TableLinks(doc[i].anchors, 1) \o ProgramasScan(doc, i + 1)

parse_programas(html) == ProgramasScan(html, 1)

(* ---- parse_titulados_table (scrape_titulados.py:95-125) ---- *)
\* the rows without the test of line 121
RECURSIVE Mut_TableRows(_, _)
Mut_TableRows(trs, r) ==
  IF r > Len(trs) THEN <<>>
  ELSE IF Len(trs[r]) >= 2
    THEN <<[nombre |-> Strip(trs[r][1]), anio |-> Strip(trs[r][2])]>> \o Mut_TableRows(trs, r + 1)
    ELSE Mut_TableRows(trs, r + 1)

\* lines 116-122: the rows of the matched table, from row r on
RECURSIVE TableRows(_, _)
TableRows(trs, r) ==
  IF r > Len(trs) THEN <<>>
  ELSE IF Len(trs[r]) >= 2 /\ (Strip(trs[r][1]) # <<>> \/ Strip(trs[r][2]) # <<>>)
    THEN <<[nombre |-> Strip(trs[r][1]), anio |-> Strip(trs[r][2])]>> \o TableRows(trs, r + 1)
    ELSE TableRows(trs, r + 1)

\* lines 109-113: the header test of one table
IsTituladosTable(t) ==
  LET header_cells == [i \in 1..Len(t.header) |-> Strip(t.header[i])]
      header_text == Join(<<" ">>, header_cells)
  IN /\ header_cells # <<>>
     /\ Contains(header_text, "Nombre") /\ Contains(header_text, "alumno")
     /\ Contains(header_text, "titulaci")

\* the loop without the "break" of line 123
RECURSIVE Mut_TituladosScan(_, _)
Mut_TituladosScan(doc, i) ==
  IF i > Len(doc) THEN <<>>
  ELSE IF IsTituladosTable(doc[i])
    THEN TableRows(doc[i].rows, 1) \o Mut_TituladosScan(doc, i + 1)
  ELSE Mut_TituladosScan(doc, i + 1)

\* lines 102-123: the loop over the tables, from table i on
RECURSIVE TituladosScan(_, _)
TituladosScan(doc, i) ==
  IF i > Len(doc) THEN <<>>
  ELSE IF IsTituladosTable(doc[i]) THEN TableRows(doc[i].rows, 1)
  ELSE TituladosScan(doc, i + 1)

parse_titulados_table(html) == TituladosScan(html, 1)

(* ---- split_name (scrape_titulados.py:128-169) ---- *)
\* str.split(): the maximal runs of non-whitespace pieces
RECURSIVE SplitFrom(_, _, _)
SplitFrom(text, i, cur) ==
  IF i > Len(text) THEN (IF cur = <<>> THEN <<>> ELSE <<cur>>)
  ELSE IF text[i] \in Whitespace
    THEN (IF cur = <<>> THEN <<>> ELSE <<cur>>) \o SplitFrom(text, i + 1, <<>>)
    ELSE SplitFrom(text, i + 1, Append(cur, text[i]))

Split(text) == SplitFrom(text, 1, <<>>)

\* split_name with the second of two tokens taken as the maternal surname
Mut_split_name_two(full_name) ==
  LET tokens == Split(Strip(full_name))
      n == Len(tokens)
      at(i) == IF i <= n THEN tokens[i] ELSE <<>>
  IN [apellido_paterno |-> at(1), apellido_materno |-> at(2), primer_nombre |-> at(3),
      segundo_nombre |-> IF n >= 4 THEN Join(<<" ">>, SubSeq(tokens, 4, n)) ELSE <<>>]

\* split_name with the fourth token alone as the second name
Mut_split_name_four(full_name) ==
  LET tokens == Split(Strip(full_name))
      n == Len(tokens)
      at(i) == IF i <= n THEN tokens[i] ELSE <<>>
  IN [apellido_paterno |-> at(1),
      apellido_materno |-> IF n >= 3 THEN at(2) ELSE <<>>,
      primer_nombre |-> IF n >= 3 THEN at(3) ELSE at(2),
      segundo_nombre |-> at(4)]

split_name(full_name) ==
  LET tokens == Split(Strip(full_name))
      n == Len(tokens)
  IN IF n >= 4 THEN
       [apellido_paterno |-> tokens[1], apellido_materno |-> tokens[2],
        primer_nombre |-> tokens[3],
        segundo_nombre |-> Join(<<" ">>, SubSeq(tokens, 4, n))]
     ELSE IF n = 3 THEN
       [apellido_paterno |-> tokens[1], apellido_materno |-> tokens[2],
        primer_nombre |-> tokens[3], segundo_nombre |-> <<>>]
     ELSE IF n = 2 THEN
       [apellido_paterno |-> tokens[1], apellido_materno |-> <<>>,
        primer_nombre |-> tokens[2], segundo_nombre |-> <<>>]
     ELSE IF n = 1 THEN
       [apellido_paterno |-> tokens[1], apellido_materno |-> <<>>,
        primer_nombre |-> <<>>, segundo_nombre |-> <<>>]
     ELSE
       [apellido_paterno |-> <<>>, apellido_materno |-> <<>>,
        primer_nombre |-> <<>>, segundo_nombre |-> <<>>]

\* the csv row with the year and the full name in each other's column
Mut_CsvRow(row) ==
  LET parts == split_name(row.nombre) IN
  [apellido_paterno |-> parts.apellido_paterno,
   apellido_materno |-> parts.apellido_materno,
   primer_nombre |-> parts.primer_nombre,
   segundo_nombre |-> parts.segundo_nombre,
   anio_titulacion |-> row.nombre,
   nombre_completo |-> row.anio]

\* lines 198-202: the csv row written for one parsed row
CsvRow(row) ==
  LET parts == split_name(row.nombre) IN
  [apellido_paterno |-> parts.apellido_paterno,
   apellido_materno |-> parts.apellido_materno,
   primer_nombre |-> parts.primer_nombre,
   segundo_nombre |-> parts.segundo_nombre,
   anio_titulacion |-> row.anio,
   nombre_completo |-> row.nombre]

\* lines 192-193: the path of the category's csv file
OutPath(output_dir, career_name) ==
  output_dir \o <<"/">> \o sanitize_filename(career_name) \o <<".csv">>

(* ---- the site: the documents the registry serves ---- *)
CareerName(i) == <<"ACTUAR", "Í", "A", " ", ToString(i)>>
CareerHref(i) == <<"titulados.asp", "?", "prog=", ToString(i)>>

\* the directory page: a LICENCIATURA table with n career links, then a
\* DOCTORADO table with one link
IndexDoc(n) ==
  <<[header |-> << <<"LICENCIATURA">> >>, rows |-> <<>>,
     anchors |-> [i \in 1..n |-> [href |-> CareerHref(i), text |-> CareerName(i)]]],
    [header |-> << <<"DOCTORADO">> >>, rows |-> <<>>,
     anchors |-> <<[href |-> CareerHref(n + 1), text |-> <<"ECONOM", "Í", "A">>]>>]>>

GradName(r) ==
  IF r % 2 = 1
    THEN <<"GARC", "Í", "A", " ", "L", "Ó", "PEZ", " ", "MAR", "Í", "A", " ", "JOS", "É">>
    ELSE <<"P", "É", "REZ", " ", "ANA", ToString(r)>>

\* the year cell of row r: a year, or a text that is no year
GradYear(r) ==
  IF r = 1 THEN <<"2020">>
  ELSE IF r = 2 THEN <<"s", "/", "f">>
  ELSE <<"20", ToString(r)>>

\* a listing page: one data table with n rows
ListingDoc(n) ==
  <<[header |-> << <<"Nombre", " ", "del", " ", "alumno">>,
                   <<"A", "ñ", "o", " ", "de", " ", "titulaci", "ó", "n">> >>,
     rows |-> [r \in 1..n |-> <<GradName(r), GradYear(r)>>],
     anchors |-> <<>>]>>

Latin(doc) == [enc |-> "iso-8859-1", doc |-> doc]

\* what a GET of the directory page can answer
IndexResponses(causes, cats) ==
  {Failed(c) : c \in causes}
    \cup {Ok("iso-8859-1", "iso-8859-1", Latin(IndexDoc(n))) : n \in cats}

\* what a GET of a listing page can answer: a failure, a page that declares
\* its charset, or a page that declares none and is misdetected
ListingResponses(causes, declared, undeclared) ==
  {Failed(c) : c \in causes}
    \cup {Ok("iso-8859-1", "iso-8859-1", Latin(ListingDoc(n))) : n \in declared}
    \cup {Ok("none", "utf-16", Latin(ListingDoc(n))) : n \in undeclared}

FirstListing == BASE_URL \o <<"/">> \o CareerHref(1)

VARIABLES
  web,        \* the responses the site can give: [index, first, listing]
  pc,         \* main's position
  exit,       \* how main ended: "running", "raised", "return_216", "return_239"
  idx,        \* the get_latest_html call of main (line 212)
  careers,    \* the list parse_programas returned (line 213)
  task,       \* the futures of line 221, one per career, with their worker's state
  queue,      \* the executor's work queue
  results,    \* main's results list (line 219)
  collected,  \* the futures as_completed has yielded, in order
  out,        \* the lines printed
  files,      \* the files of the output directory: path -> rows written
  unit        \* a function of the module called on its own: [fn, arg, ret, done]

vars == <<web, pc, exit, idx, careers, task, queue, results, collected, out, files, unit>>

\* no function is called on its own in a run of main
NoUnit == [fn |-> "none", arg |-> <<>>, ret |-> <<>>, done |-> FALSE]

Line(kind, name, a, b, c, e) ==
  [kind |-> kind, name |-> name, a |-> a, b |-> b, c |-> c, e |-> e]

\* a future and the scrape_career call it runs: the future's state (st), the
\* worker's position (pos), its current get_latest_html call, the fetches it
\* has begun (fetched), the number of parses it has made, the rows of its
\* first parse (rows1), its rows, and the future's result or exception
NewTask ==
  [st |-> "none", pos |-> "none", call |-> NoCall, fetched |-> <<>>,
   parses |-> 0, rows1 |-> <<>>, rows |-> <<>>, result |-> 0, exc |-> None]

Served(url) ==
  IF url = PROGRAMAS_URL THEN web.index
  ELSE IF url = FirstListing THEN web.first
  ELSE web.listing

Running == {c \in DOMAIN task : task[c].st = "running"}

InitMain ==
  /\ pc = "fetch_index"
  /\ exit = "running"
  /\ idx = NewCall(PROGRAMAS_URL, "none")
  /\ careers = <<>>
  /\ task = <<>>
  /\ queue = <<>>
  /\ results = <<>>
  /\ collected = <<>>
  /\ out = <<Line("Fetching", <<>>, 0, 0, 0, None)>>
  /\ files = <<>>
  /\ unit = NoUnit

Init ==
  /\ web = [index |-> IndexResponses(Failures, 0..MaxCats),
            first |-> ListingResponses(Failures, 0..MaxRows, {MaxRows}),
            listing |-> ListingResponses(Failures, 0..MaxRows, {MaxRows})]
  /\ InitMain

\* a site that never fails, with PoolCats careers, whose first listing page
\* declares no charset
InitPool ==
  /\ web = [index |-> IndexResponses({}, {PoolCats}),
            first |-> ListingResponses({}, {}, {MaxRows}),
            listing |-> ListingResponses({}, {MaxRows}, {})]
  /\ InitMain

(* ---- main (scrape_titulados.py:207-239) ---- *)
\* line 212: one attempt of the fetch of the directory page; the RuntimeError
\* of an exhausted fetch is not caught in main
FetchIndex ==
  /\ pc = "fetch_index"
  /\ \E resp \in Served(idx.url) :
       LET call == get_latest_html(idx, resp) IN
       /\ idx' = call
       /\ pc' = IF call.state = "returned" THEN "parse_index"
                ELSE IF call.state = "raised" THEN "done" ELSE pc
       /\ exit' = IF call.state = "raised" THEN "raised" ELSE exit
  /\ UNCHANGED <<unit, web, careers, task, queue, results, collected, out, files>>

\* line 214: the test for an empty career list
Mut_NoCareers(cs) == FALSE
NoCareers(cs) == cs = <<>>

\* lines 213-217
Discover ==
  /\ pc = "parse_index"
  /\ careers' = parse_programas(idx.text)
  /\ idx' = NoCall
  /\ IF NoCareers(careers')
       THEN /\ out' = Append(out, Line("NoLinks", <<>>, 0, 0, 0, None))
            /\ pc' = "done"
            /\ exit' = "return_216"
            /\ task' = task
       ELSE /\ out' = Append(out, Line("Found", <<>>, Len(careers'), 0, 0, None))
            /\ pc' = "submit"
            /\ exit' = exit
            /\ task' = [c \in 1..Len(careers') |-> NewTask]
  /\ UNCHANGED <<unit, web, queue, results, collected, files>>

\* lines 221-224: executor.submit of the next career; the executor queues the
\* work item whatever the number of running workers
Submit(c) ==
  /\ pc = "submit"
  /\ c \in DOMAIN task
  /\ task[c].st = "none"
  /\ \A d \in 1..(c - 1) : task[d].st # "none"
  /\ task' = [task EXCEPT ![c].st = "queued"]
  /\ queue' = Append(queue, c)
  /\ pc' = IF c = Len(careers) THEN "collect" ELSE pc
  /\ UNCHANGED <<unit, web, exit, idx, careers, results, collected, out, files>>

\* line 220: a pool thread takes the oldest work item, while fewer than
\* max_workers threads are busy
Mut_PoolHasRoom == TRUE
PoolHasRoom == Cardinality(Running) < MAX_WORKERS

Start(c) ==
  /\ queue # <<>>
  /\ Head(queue) = c
  /\ PoolHasRoom
  /\ queue' = Tail(queue)
  /\ task' = [task EXCEPT ![c].st = "running", ![c].pos = "fetch1",
                          ![c].call = NewCall(careers[c].url, "none"),
                          ![c].fetched = <<[url |-> careers[c].url, force |-> "none"]>>]
  /\ UNCHANGED <<unit, web, pc, exit, idx, careers, results, collected, out, files>>

(* ---- scrape_career (scrape_titulados.py:172-204) ---- *)
\* the worker notes the error and goes on to line 184 with the rows it has
Mut_Propagate(t, call) == [t EXCEPT !.call = NoCall, !.pos = "write", !.exc = call.err]

\* lines 178 and 181 stand in no try block: what get_latest_html raises
\* leaves scrape_career at once and ends the future with the exception
Propagate(t, call) ==
  [t EXCEPT !.call = call, !.st = "finished", !.pos = "end", !.exc = call.err]

\* one attempt of the get_latest_html call the worker is in; an exhausted
\* call raises out of scrape_career and ends the future with the exception
Attempt(c, pos, next) ==
  /\ c \in DOMAIN task
  /\ task[c].st = "running"
  /\ task[c].pos = pos
  /\ \E resp \in Served(task[c].call.url) :
       LET call == get_latest_html(task[c].call, resp) IN
       task' =
         IF call.state = "raised"
           THEN [task EXCEPT ![c] = Propagate(@, call)]
         ELSE IF call.state = "returned"
           THEN [task EXCEPT ![c].call = call, ![c].pos = next]
         ELSE [task EXCEPT ![c].call = call]
  /\ UNCHANGED <<unit, web, pc, exit, idx, careers, queue, results, collected, out, files>>

\* line 178
Fetch1(c) == Attempt(c, "fetch1", "parse1")

\* line 180: whether the forced-encoding fetch is made
Mut_NeedsRetry(rows, url) == Contains(url, "titulados.asp")
NeedsRetry(rows, url) == rows = <<>> /\ Contains(url, "titulados.asp")

\* lines 179-181: the parse of the first text, and the call of the second fetch
Parse1(c) ==
  /\ c \in DOMAIN task
  /\ task[c].st = "running"
  /\ task[c].pos = "parse1"
  /\ LET rows == parse_titulados_table(task[c].call.text)
         url == careers[c].url
     IN task' =
          IF NeedsRetry(rows, url)
            THEN [task EXCEPT ![c].rows = rows, ![c].rows1 = rows, ![c].parses = 1,
                              ![c].pos = "fetch2",
                              ![c].call = NewCall(url, "iso-8859-1"),
                              ![c].fetched = Append(@, [url |-> url, force |-> "iso-8859-1"])]
            ELSE [task EXCEPT ![c].rows = rows, ![c].rows1 = rows, ![c].parses = 1,
                              ![c].pos = "write",
                              ![c].call = NoCall]
  /\ UNCHANGED <<unit, web, pc, exit, idx, careers, queue, results, collected, out, files>>

\* line 181
Fetch2(c) == Attempt(c, "fetch2", "parse2")

\* the rows scrape_career goes on with after the second parse (line 182)
Mut_RowsAfterRetry(first, second) == first
RowsAfterRetry(first, second) == second

\* line 182
Parse2(c) ==
  /\ c \in DOMAIN task
  /\ task[c].st = "running"
  /\ task[c].pos = "parse2"
  /\ task' = [task EXCEPT
                ![c].rows = RowsAfterRetry(@, parse_titulados_table(task[c].call.text)),
                ![c].parses = 2, ![c].pos = "write", ![c].call = NoCall]
  /\ UNCHANGED <<unit, web, pc, exit, idx, careers, queue, results, collected, out, files>>

\* lines 184-204: the csv file is written and the row count returned
Write(c) ==
  /\ c \in DOMAIN task
  /\ task[c].st = "running"
  /\ task[c].pos = "write"
  /\ LET out_path == OutPath(OUTPUT_DIR, careers[c].name)
         rows == task[c].rows
         written == [r \in 1..Len(rows) |-> CsvRow(rows[r])]
     IN files' = [p \in DOMAIN files \cup {out_path} |->
                    IF p = out_path THEN written ELSE files[p]]
  /\ task' = [task EXCEPT ![c].st = "finished", ![c].pos = "end",
                          ![c].result = Len(task[c].rows)]
  /\ UNCHANGED <<unit, web, pc, exit, idx, careers, queue, results, collected, out>>

(* ---- main, continued ---- *)
\* the label an outcome is recorded under (line 226)
Mut_LabelOf(c) == careers[Len(collected) + 1].name
LabelOf(c) == careers[c].name

\* line 231: "except Exception" catches whatever scrape_career raised
Mut_Caught(e) == FALSE
Caught(e) == TRUE

\* lines 227-233: the outcome recorded for a future
Mut_OutcomeEmpty(c) ==
  IF task[c].exc = None /\ task[c].result > 0
    THEN [name |-> LabelOf(c), count |-> task[c].result, e |-> None]
    ELSE [name |-> LabelOf(c), count |-> 0, e |-> <<"empty">>]
Mut_OutcomeOk(c) ==
  [name |-> LabelOf(c), count |-> task[c].result, e |-> None]
Outcome(c) ==
  IF task[c].exc = None
    THEN [name |-> LabelOf(c), count |-> task[c].result, e |-> None]
    ELSE [name |-> LabelOf(c), count |-> 0, e |-> task[c].exc]

\* lines 225-233: as_completed yields a finished future not yet yielded; an
\* exception the except clause does not catch would leave main
Collect(c) ==
  /\ pc = "collect"
  /\ c \in DOMAIN task
  /\ task[c].st = "finished"
  /\ \A i \in 1..Len(collected) : collected[i] # c
  /\ collected' = Append(collected, c)
  /\ IF task[c].exc # None /\ ~Caught(task[c].exc)
       THEN /\ pc' = "done"
            /\ exit' = "raised"
            /\ UNCHANGED <<results, out>>
       ELSE /\ results' = Append(results, Outcome(c))
            /\ out' = Append(out, Line(IF Outcome(c).e = None THEN "OK" ELSE "FAIL",
                                       Outcome(c).name, Outcome(c).count, 0, 0, Outcome(c).e))
            /\ UNCHANGED <<pc, exit>>
  /\ UNCHANGED <<unit, web, idx, careers, task, queue, files>>

\* line 235
Mut_CountOk(rs) == Len(rs)
CountOk(rs) == Cardinality({i \in 1..Len(rs) : rs[i].e = None})

\* line 236
RECURSIVE TotalRows(_)
TotalRows(rs) ==
  IF rs = <<>> THEN 0
  ELSE (IF Head(rs).e = None THEN Head(rs).count ELSE 0) + TotalRows(Tail(rs))

\* lines 235-239, once as_completed has yielded every future
Tally ==
  /\ pc = "collect"
  /\ Len(collected) = Len(careers)
  /\ LET done == Line("Done", OUTPUT_DIR, CountOk(results), Len(careers), TotalRows(results), None)
     IN out' = IF \E i \in 1..Len(results) : results[i].e # None
                 THEN out \o <<done, Line("SomeFailed", <<>>, 0, 0, 0, None)>>
                 ELSE Append(out, done)
  /\ pc' = "done"
  /\ exit' = "return_239"
  /\ UNCHANGED <<unit, web, idx, careers, task, queue, results, collected, files>>

Next ==
  \/ FetchIndex
  \/ Discover
  \/ \E c \in 1..Len(careers) : Submit(c)
  \/ \E c \in 1..Len(careers) : Start(c)
  \/ \E c \in 1..Len(careers) : Fetch1(c)
  \/ \E c \in 1..Len(careers) : Parse1(c)
  \/ \E c \in 1..Len(careers) : Fetch2(c)
  \/ \E c \in 1..Len(careers) : Parse2(c)
  \/ \E c \in 1..Len(careers) : Write(c)
  \/ \E c \in 1..Len(careers) : Collect(c)
  \/ Tally

Spec == Init /\ [][Next]_vars

SpecPool == InitPool /\ [][Next]_vars

\* threads are scheduled and every HTTP attempt ends (timeout=30, line 31)
InitFair ==
  /\ web = [index |-> IndexResponses({"timeout"}, 0..MaxCats),
            first |-> ListingResponses({"timeout"}, 0..MaxRows, {MaxRows}),
            listing |-> ListingResponses({"timeout"}, {MaxRows}, {})]
  /\ InitMain

FairSpec == InitFair /\ [][Next]_vars /\ WF_vars(Next)

(* ---- scrape_career on its own ---- *)
OtherPage == BASE_URL \o <<"/", "egresados.asp">>

\* scrape_career called for a listing address and for an address of another
\* kind, each call on a pool thread
InitCareer ==
  /\ web = [index |-> {},
            first |-> ListingResponses(Failures, 0..MaxRows, {MaxRows}),
            listing |-> ListingResponses(Failures, 0..MaxRows, {MaxRows})]
  /\ pc = "direct"
  /\ exit = "running"
  /\ idx = NoCall
  /\ careers = <<[name |-> CareerName(1), url |-> FirstListing],
                 [name |-> CareerName(2), url |-> OtherPage]>>
  /\ task = [c \in 1..2 |-> [NewTask EXCEPT !.st = "queued"]]
  /\ queue = <<1, 2>>
  /\ results = <<>>
  /\ collected = <<>>
  /\ out = <<>>
  /\ files = <<>>
  /\ unit = NoUnit

NextCareer ==
  \/ \E c \in 1..Len(careers) : Start(c)
  \/ \E c \in 1..Len(careers) : Fetch1(c)
  \/ \E c \in 1..Len(careers) : Parse1(c)
  \/ \E c \in 1..Len(careers) : Fetch2(c)
  \/ \E c \in 1..Len(careers) : Parse2(c)
  \/ \E c \in 1..Len(careers) : Write(c)

SpecCareer == InitCareer /\ [][NextCareer]_vars

(* ======================= properties ======================= *)
Tasks == DOMAIN task
Raised(c) == task[c].call.state = "raised"
FailedSet == {c \in Tasks : Raised(c)}
Lines(kind) == {i \in 1..Len(out) : out[i].kind = kind}
DoneLine == out[CHOOSE i \in 1..Len(out) : out[i].kind = "Done"]
Tallied == pc = "done" /\ exit = "return_239"

\* the frames of every get_latest_html call in progress or just ended
Calls == {idx} \cup {task[c].call : c \in Tasks}

C1_Frame(k) ==
  /\ k.gets <= RETRIES + 1
  /\ k.state = "loop" => k.gets = k.attempt /\ k.wire = NoResp
  /\ k.state = "returned" =>
       /\ k.wire.status = "ok"
       /\ k.gets = k.attempt + 1
       /\ k.text = Decode(k.wire.bytes, k.codec)
       /\ k.err = None
  /\ k.state = "raised" =>
       /\ k.gets = RETRIES + 1
       /\ k.attempt = RETRIES
       /\ k.wire.status \in Failures
       /\ k.err = RuntimeError(k.url, k.wire.status)

C1_Ended(k, k2) ==
  k.state \in {"returned", "raised"} => k2 = k \/ k2.gets = 0

C1_Step ==
  /\ C1_Ended(idx, idx')
  /\ \A c \in Tasks : c \in DOMAIN task' => C1_Ended(task[c].call, task'[c].call)

\* C1: a call of get_latest_html issues at most RETRIES + 1 GETs; every GET
\* before the one it ends on has failed; it returns the decoded body of the
\* first GET that succeeds and issues no GET after it; it raises only when
\* RETRIES + 1 GETs have failed, with the cause of the last one in the error.
C1_FetchBudget == [](\A k \in Calls : C1_Frame(k)) /\ [][C1_Step]_vars

C1_Witness ==
  \E c, d \in Tasks :
    /\ task[c].call.state = "returned" /\ task[c].call.gets = RETRIES + 1
    /\ task[d].call.state = "raised" /\ task[d].call.wire.status = "timeout"

SubmitNext == \E c \in 1..Len(careers) : Submit(c)

\* C2: never more than MAX_WORKERS scrape_career calls run at once, however
\* many careers were found; main's submit is never held back by the pool (it
\* is enabled whenever main is submitting), every career has been submitted
\* when main starts collecting, and a task waits in the queue only as queued.
C2_PoolCeiling ==
  /\ Cardinality(Running) <= MAX_WORKERS
  /\ pc = "submit" => ENABLED SubmitNext
  /\ pc = "collect" => \A c \in Tasks : task[c].st # "none"
  /\ \A c \in Tasks : task[c].st = "queued" <=> Contains(queue, c)

C2_Witness ==
  /\ Len(careers) > MAX_WORKERS
  /\ Cardinality(Running) = MAX_WORKERS
  /\ queue # <<>>
  /\ pc = "collect"

\* C3: when main has collected, results holds one outcome per career: each
\* career's label occurs in exactly one outcome, each future was yielded
\* once, and the outcome at position i carries the label and the result or
\* exception of the future yielded i-th, whatever the order of completion.
C3_ExactlyOnce ==
  Tallied =>
    /\ Len(results) = Len(careers)
    /\ Len(collected) = Len(careers)
    /\ \A c \in Tasks :
         /\ Cardinality({i \in 1..Len(results) : results[i].name = careers[c].name}) = 1
         /\ Cardinality({i \in 1..Len(collected) : collected[i] = c}) = 1
    /\ \A i \in 1..Len(results) :
         LET t == task[collected[i]] IN
         /\ results[i].name = careers[collected[i]].name
         /\ results[i].e = t.exc
         /\ t.exc = None => results[i].count = t.result

C3_Witness ==
  /\ Tallied
  /\ Len(collected) >= 2
  /\ collected[1] = 2
  /\ collected[2] = 1

\* C4: once careers are found, every career's worker comes to run and to
\* finish (with a row count or with the error of an exhausted fetch), whatever
\* happens to the others, and the tally is then printed.
C4_AllRunAndTally ==
  (careers # <<>>) ~>
    (/\ Tallied
     /\ Lines("Done") # {}
     /\ Tasks = 1..Len(careers)
     /\ \A c \in Tasks :
          /\ task[c].st = "finished"
          /\ task[c].fetched # <<>>
          /\ Raised(c) \/ (task[c].exc = None /\ task[c].parses >= 1))

C4_Witness ==
  /\ Tallied
  /\ \E c, d \in Tasks :
       /\ Raised(c) /\ task[c].exc # None
       /\ task[d].exc = None /\ task[d].result > 0
       /\ c < d

RECURSIVE RowsOfSucceeded(_)
RowsOfSucceeded(n) ==
  IF n = 0 THEN 0
  ELSE (IF Raised(n) THEN 0 ELSE Len(task[n].rows)) + RowsOfSucceeded(n - 1)

\* C5: with N careers of which K ended on an exhausted fetch, the Done line
\* reports N - K successes out of N and the total of the rows of the
\* succeeded careers; there are exactly K FAIL lines, one per failed career
\* with its label and the error of its fetch; the closing warning is printed
\* iff K > 0.
C5_Tally ==
  Tallied =>
    LET N == Len(careers)
        K == Cardinality(FailedSet)
    IN /\ Cardinality(Lines("Done")) = 1
       /\ DoneLine.a = N - K
       /\ DoneLine.b = N
       /\ DoneLine.c = RowsOfSucceeded(N)
       /\ Cardinality(Lines("FAIL")) = K
       /\ Cardinality(Lines("OK")) = N - K
       /\ \A c \in FailedSet :
            \E i \in Lines("FAIL") :
              /\ out[i].name = careers[c].name
              /\ out[i].e = RuntimeError(careers[c].url, task[c].call.wire.status)
       /\ (K > 0) <=> (out[Len(out)].kind = "SomeFailed")

C5_Witness ==
  /\ Tallied
  /\ Len(careers) = 2
  /\ Cardinality(FailedSet) = 1
  /\ DoneLine.a = 1
  /\ DoneLine.c = MaxRows

C6_Task(c) ==
  LET t == task[c]
      url == careers[c].url
      n == Len(t.fetched)
  IN /\ n <= 2
     /\ n = 2 <=> (t.parses >= 1 /\ t.rows1 = <<>> /\ Contains(url, "titulados.asp"))
     /\ n >= 1 => t.fetched[1] = [url |-> url, force |-> "none"]
     /\ n = 2 => t.fetched[2] = [url |-> url, force |-> "iso-8859-1"]
     /\ t.parses = 2 => n = 2
     /\ t.parses = 1 => t.rows = t.rows1
     /\ t.call.state # "idle" =>
          /\ n >= 1
          /\ t.call.url = t.fetched[n].url
          /\ t.call.force = t.fetched[n].force

C6_Step ==
  \A c \in Tasks :
    /\ (task[c].pos = "parse2" /\ task'[c].pos = "write") =>
         task'[c].rows = parse_titulados_table(task[c].call.text)
    /\ (task[c].pos = "write" /\ task'[c].pos = "end") =>
         /\ task'[c].result = Len(task[c].rows)
         /\ Len(files'[OutPath(OUTPUT_DIR, careers[c].name)]) = Len(task[c].rows)

\* C6: scrape_career makes a second fetch iff its first fetch returned, the
\* parse of it gave no row and the address contains "titulados.asp"; the
\* second fetch is the only one, goes to the same address and forces
\* iso-8859-1, and the rows written and counted are those of the second
\* parse; with a row from the first parse there is no second fetch.
C6_RetryOnce == [](\A c \in Tasks : C6_Task(c)) /\ [][C6_Step]_vars

C6_Witness ==
  /\ Len(task[1].fetched) = 2 /\ task[1].pos = "end"
  /\ task[1].exc = None /\ task[1].result > 0
  /\ task[2].parses = 1 /\ task[2].rows1 = <<>> /\ Len(task[2].fetched) = 1
  /\ ~Contains(careers[2].url, "titulados.asp")

EmptyTwice(c) ==
  /\ task[c].st = "finished"
  /\ task[c].parses = 2
  /\ task[c].rows1 = <<>>
  /\ task[c].rows = <<>>

\* C7: a career whose two fetches returned and whose two parses gave no row
\* ends without exception and with row count 0; main records it as
\* (label, 0, None), prints it as OK and counts it in the Done line.
C7_EmptyIsSuccess ==
  /\ \A c \in Tasks : EmptyTwice(c) => task[c].exc = None /\ task[c].result = 0
  /\ \A i \in 1..Len(results) :
       EmptyTwice(collected[i]) =>
         /\ results[i] = [name |-> careers[collected[i]].name, count |-> 0, e |-> None]
         /\ \E j \in Lines("OK") : out[j].name = careers[collected[i]].name /\ out[j].a = 0
         /\ \A j \in Lines("FAIL") : out[j].name # careers[collected[i]].name
  /\ Tallied => DoneLine.a >= Cardinality({c \in Tasks : EmptyTwice(c)})

C7_Witness ==
  /\ Tallied
  /\ \E i \in 1..Len(results) :
       /\ EmptyTwice(collected[i])
       /\ results[i].e = None
       /\ results[i].count = 0
  /\ DoneLine.a = Len(careers)

\* C8: an exhausted fetch in a worker, first or second, ends that worker's
\* future with the error; main records it as (label of that career, 0, the
\* error) and goes on: every yielded future has its outcome in results, and
\* no exception of a worker leaves main.
C8_FailureTagged ==
  /\ \A c \in Tasks :
       Raised(c) =>
         /\ task[c].st = "finished"
         /\ task[c].exc = RuntimeError(careers[c].url, task[c].call.wire.status)
  /\ \A i \in 1..Len(results) :
       Raised(collected[i]) =>
         results[i] = [name |-> careers[collected[i]].name, count |-> 0,
                       e |-> task[collected[i]].exc]
  /\ Len(results) = Len(collected)
  /\ exit = "raised" => Tasks = {}

C8_Witness ==
  \E i, j \in 1..Len(results) :
    /\ results[i].e # None /\ Len(task[collected[i]].fetched) = 2
    /\ results[j].e # None /\ Len(task[collected[j]].fetched) = 1

C9_Step ==
  /\ (pc = "parse_index" /\ parse_programas(idx.text) = <<>>) =>
       (pc' = "done" /\ exit' = "return_216")
  /\ exit = "return_216" => FALSE

\* C9: when the directory page was fetched and parse_programas finds no
\* career, main reports it and ends at once: no future is created, nothing is
\* queued, no listing page is fetched, no file written, and nothing happens
\* afterwards.
C9_NoCareersEndsRun ==
  [](exit = "return_216" =>
       /\ pc = "done"
       /\ careers = <<>>
       /\ Tasks = {}
       /\ queue = <<>>
       /\ results = <<>>
       /\ files = <<>>
       /\ out[Len(out)].kind = "NoLinks")
  /\ [][C9_Step]_vars

C9_Witness == exit = "return_216" /\ out[Len(out)].kind = "NoLinks"

\* C10: a run ends either on the empty career list or on the tally, with
\* every career dispatched.
C10_OnlyDiscoveryAborts ==
  pc = "done" =>
    \/ exit = "return_216"
    \/ /\ exit = "return_239"
       /\ careers # <<>>
       /\ \A c \in Tasks : task[c].st = "finished"

(* ---- a directory page whose labels meet in one file name ---- *)
\* a directory page with one LICENCIATURA table and the given labels
LabelledDoc(labels) ==
  <<[header |-> << <<"LICENCIATURA">> >>, rows |-> <<>>,
     anchors |-> [i \in 1..Len(labels) |-> [href |-> CareerHref(i), text |-> labels[i]]]]>>

\* two labels that differ in a filesystem-unsafe character only, and a
\* label listed twice
SinkLabels ==
  { << <<"M", "/", "A">>, <<"M", ":", "A">> >>,
    << <<"DERECHO">>, <<"DERECHO">> >> }

InitSink ==
  /\ web = [index |-> {Ok("iso-8859-1", "iso-8859-1", Latin(LabelledDoc(ls))) : ls \in SinkLabels},
            first |-> ListingResponses({"timeout"}, 0..MaxRows, {MaxRows}),
            listing |-> ListingResponses({"timeout"}, {MaxRows}, {})]
  /\ InitMain

SpecSink == InitSink /\ [][Next]_vars

\* the file scrape_career opens for career c, and whether it has written it
Sink(c) == OutPath(OUTPUT_DIR, careers[c].name)
Wrote(c) == task[c].pos = "end" /\ task[c].exc = None

\* C11: the file written by the worker of one career is never written by the
\* worker of another career, whatever the labels of the directory page.
C11_NoSharedSink ==
  \A c, d \in Tasks : (c # d /\ Wrote(c) /\ Wrote(d)) => Sink(c) # Sink(d)

(* ---- a function called on its own ---- *)
\* the rest of the program stands still while a function is called on its own
IdleMain ==
  /\ web = [index |-> {}, first |-> {}, listing |-> {}]
  /\ pc = "unit"
  /\ exit = "running"
  /\ idx = NoCall
  /\ careers = <<>>
  /\ task = <<>>
  /\ queue = <<>>
  /\ results = <<>>
  /\ collected = <<>>
  /\ out = <<>>
  /\ files = <<>>

Pending(fn, args) == {[fn |-> fn, arg |-> a, ret |-> <<>>, done |-> FALSE] : a \in args}
Called(fn) == unit.fn = fn /\ unit.done

\* the call of fn returns the value ret
Apply(fn, ret) ==
  /\ unit.fn = fn
  /\ ~unit.done
  /\ unit' = [unit EXCEPT !.ret = ret, !.done = TRUE]
  /\ UNCHANGED <<web, pc, exit, idx, careers, task, queue, results, collected, out, files>>

SeqsUpTo(S, n) == UNION {[1..k -> S] : k \in 0..n}

(* ---- parse_programas on its own ---- *)
\* first rows of a table: the two tier markers (one of them spaced and in
\* lower case), another tier, a row of two cells, and no row
HeaderKinds ==
  { << <<"LICENCIATURA">> >>, << <<" ", "Licenciatura", " ">> >>,
    << <<"DOCTORADO">> >>, << <<"MAESTRIA">> >>,
    << <<"LICENCIATURA">>, <<"PLAN">> >>, <<>> }

\* the link of the i-th table of a document
TierAnchor(i) == [href |-> CareerHref(i), text |-> <<"P", ToString(i)>>]

\* a document of tables with the given first rows, one career link in each
TierDoc(headers) ==
  [i \in 1..Len(headers) |->
     [header |-> headers[i], rows |-> <<>>, anchors |-> <<TierAnchor(i)>>]]

Query == <<"titulados.asp", "?", "prog=", "1">>

\* link targets: relative, spaced, rooted, absolute, protocol-relative, and
\* two that are no listing page
HrefKinds ==
  { Query,
    <<" ">> \o Query \o <<" ">>,
    <<"/", "titulacion", "/">> \o Query,
    <<"http", "s", ":", "/", "/", "otro.itam.mx", "/">> \o Query,
    <<"http", ":", "/", "/", "otro.itam.mx", "/">> \o Query,
    <<"/", "/", "escolar1.rhon.itam.mx", "/", "titulacion", "/">> \o Query,
    <<"titulados.asp">>,
    <<"programas.asp", "?", "prog=", "1">> }

TextKinds == { <<"ECONOM", "Í", "A">>, <<" ", "DERECHO", " ">>, <<" ">>, <<>> }

\* a document with one LICENCIATURA table and one link
HrefDoc(href, text) ==
  <<[header |-> << <<"LICENCIATURA">> >>, rows |-> <<>>,
     anchors |-> <<[href |-> href, text |-> text]>>]>>

ProgramasDocs ==
  {TierDoc(hs) : hs \in SeqsUpTo(HeaderKinds, MaxTables)}
    \cup {HrefDoc(h, t) : h \in HrefKinds, t \in TextKinds}

InitProgramas == IdleMain /\ unit \in Pending("parse_programas", ProgramasDocs)
ApplyProgramas == Apply("parse_programas", parse_programas(unit.arg))
SpecProgramas == InitProgramas /\ [][ApplyProgramas]_vars

\* the tier a table announces in a first row of one cell
Section(t) == IF Len(t.header) = 1 THEN Upper(Strip(t.header[1])) ELSE <<>>
IsLic(t) == Section(t) = <<"LICENCIATURA">>
IsDoc(t) == Section(t) = <<"DOCTORADO">>
\* table j lies before every DOCTORADO table
BeforeStop(doc, j) == \A i \in 1..j : ~IsDoc(doc[i])
Qualifies(a) ==
  /\ Contains(Strip(a.href), "titulados.asp")
  /\ Contains(Strip(a.href), "prog=")
  /\ Strip(a.text) # <<>>
\* some / no returned pair carries a link text of table t
Taken(res, t) ==
  \A a \in 1..Len(t.anchors) :
    Qualifies(t.anchors[a]) => \E k \in 1..Len(res) : res[k].name = Strip(t.anchors[a].text)
Absent(res, t) ==
  \A a \in 1..Len(t.anchors) : \A k \in 1..Len(res) : res[k].name # Strip(t.anchors[a].text)

\* C12: parse_programas returns nothing from a DOCTORADO table or from a table
\* after one, also when that table is headed LICENCIATURA; with DOCTORADO
\* before every LICENCIATURA table it returns nothing; every pair it returns
\* comes from a LICENCIATURA table before the first DOCTORADO table, and the
\* links of such a table are returned.
C12_HardStop ==
  Called("parse_programas") =>
    LET doc == unit.arg
        res == unit.ret
    IN /\ \A j \in 1..Len(doc) : ~BeforeStop(doc, j) => Absent(res, doc[j])
       /\ (\A j \in 1..Len(doc) : IsLic(doc[j]) => ~BeforeStop(doc, j)) => res = <<>>
       /\ \A k \in 1..Len(res) :
            \E j \in 1..Len(doc) :
              /\ IsLic(doc[j]) /\ BeforeStop(doc, j)
              /\ \E a \in 1..Len(doc[j].anchors) : res[k].name = Strip(doc[j].anchors[a].text)
       /\ \A j \in 1..Len(doc) : (IsLic(doc[j]) /\ BeforeStop(doc, j)) => Taken(res, doc[j])

C12_Witness ==
  /\ Called("parse_programas")
  /\ Len(unit.arg) = 3
  /\ IsLic(unit.arg[1]) /\ IsDoc(unit.arg[2]) /\ IsLic(unit.arg[3])
  /\ Len(unit.ret) = 1
  /\ unit.ret[1].name = <<"P", "1">>

IsAbsolute(h) == h # <<>> /\ h[1] = "http"
IsProtocolRelative(h) == Len(h) >= 2 /\ h[1] = "/" /\ h[2] = "/"
SiteRoot == <<"http", "s", ":", "/", "/", "escolar1.rhon.itam.mx">>

\* C13: the address returned for a link is the link target itself when the
\* target is absolute or protocol-relative, and the target resolved against
\* the site otherwise.
C13_HrefResolution ==
  (Called("parse_programas") /\ Len(unit.arg) = 1 /\ Len(unit.ret) = 1) =>
    LET h == Strip(unit.arg[1].anchors[1].href)
        url == unit.ret[1].url
    IN IF IsAbsolute(h) \/ IsProtocolRelative(h) THEN url = h
       ELSE IF h[1] = "/" THEN url = SiteRoot \o h
       ELSE url = BASE_URL \o <<"/">> \o h

\* C19 as stated: the links of a table with a first row of one cell that lies
\* after a LICENCIATURA table and before every DOCTORADO table are returned.
C19_FlagAcrossTables ==
  Called("parse_programas") =>
    \A i, j \in 1..Len(unit.arg) :
      (i < j /\ IsLic(unit.arg[i]) /\ Len(unit.arg[j].header) = 1 /\ BeforeStop(unit.arg, j))
        => Taken(unit.ret, unit.arg[j])

\* C19, amended: parse_programas keeps no flag; the links of a table are
\* returned iff the table's own first row is the one cell LICENCIATURA and
\* the table lies before every DOCTORADO table, so a table of another tier
\* between the two gives nothing.
C19_OwnHeaderOnly ==
  Called("parse_programas") =>
    \A j \in 1..Len(unit.arg) :
      IF IsLic(unit.arg[j]) /\ BeforeStop(unit.arg, j)
        THEN Taken(unit.ret, unit.arg[j])
        ELSE Absent(unit.ret, unit.arg[j])

C19_Witness ==
  /\ Called("parse_programas")
  /\ Len(unit.arg) = 3
  /\ IsLic(unit.arg[1])
  /\ Section(unit.arg[2]) = <<"MAESTRIA">>
  /\ IsDoc(unit.arg[3])
  /\ Len(unit.ret) = 1
  /\ unit.ret[1].name = <<"P", "1">>

(* ---- parse_titulados_table on its own ---- *)
NameCell == <<"Nombre", " ", "del", " ", "alumno">>
YearCell == <<"A", "ñ", "o", " ", "de", " ", "titulaci", "ó", "n">>

\* first rows of a table: the listing header, the same read under a wrong
\* codec, the markers in three cells, a header with one marker missing
\* (year, "alumno", name), and no row
ListingHeaders ==
  { <<NameCell, YearCell>>,
    <<NameCell, MojiText(YearCell, "utf-8")>>,
    << <<"Nombre">>, <<" ", "alumno">>, <<"titulaci", "ó", "n">> >>,
    <<NameCell, <<"Carrera">> >>,
    << <<"Nombre">>, YearCell>>,
    << <<"Carrera">>, YearCell>>,
    <<>> }

\* a document of tables with the given first rows, table i holding one data
\* row that names i
TablesDoc(headers) ==
  [i \in 1..Len(headers) |->
     [header |-> headers[i],
      rows |-> << << <<"T", ToString(i)>>, <<"2020">> >> >>,
      anchors |-> <<>>]]

\* the r-th row of a table, by kind
RowKinds == {"full", "spaced", "three", "noyear", "noname", "empty", "blank", "one", "none"}
RowOf(kind, r) ==
  LET n == <<"N", ToString(r)>>
      y == <<"20", ToString(r)>>
  IN CASE kind = "full" -> <<n, y>>
       [] kind = "spaced" -> << <<" ">> \o n \o <<" ">>, <<" ">> \o y >>
       [] kind = "three" -> <<n, y, <<"x">> >>
       [] kind = "noyear" -> <<n, <<>> >>
       [] kind = "noname" -> << <<" ">>, y>>
       [] kind = "empty" -> << <<>>, <<>> >>
       [] kind = "blank" -> << <<" ">>, <<" ", " ">> >>
       [] kind = "one" -> <<n>>
       [] kind = "none" -> <<>>

\* a document with one listing table and the given rows
RowsDoc(kinds) ==
  <<[header |-> <<NameCell, YearCell>>,
     rows |-> [r \in 1..Len(kinds) |-> RowOf(kinds[r], r)],
     anchors |-> <<>>]>>

TituladosDocs ==
  {TablesDoc(hs) : hs \in SeqsUpTo(ListingHeaders, MaxTables)}
    \cup {RowsDoc(ks) : ks \in SeqsUpTo(RowKinds, MaxTrs)}

InitTitulados == IdleMain /\ unit \in Pending("parse_titulados_table", TituladosDocs)
ApplyTitulados == Apply("parse_titulados_table", parse_titulados_table(unit.arg))
SpecTitulados == InitTitulados /\ [][ApplyTitulados]_vars

\* a marker occurs in some cell of the first row of the table
HasMarker(t, piece) == \E c \in 1..Len(t.header) : Contains(t.header[c], piece)
NameMarker(t) == HasMarker(t, "Nombre") /\ HasMarker(t, "alumno")
YearMarker(t) == HasMarker(t, "titulaci")
Matching(doc) == {i \in 1..Len(doc) : NameMarker(doc[i]) /\ YearMarker(doc[i])}
FirstMatch(doc) == CHOOSE i \in Matching(doc) : \A j \in Matching(doc) : i <= j
\* some returned row carries the name of a row of table t
RowTaken(res, t) ==
  \E r \in 1..Len(t.rows) : \E k \in 1..Len(res) :
    Len(t.rows[r]) >= 1 /\ res[k].nombre = Strip(t.rows[r][1])

\* C14: parse_titulados_table returns rows of one table only, the first table
\* whose first row holds the name markers and the year marker; a table with
\* the name markers and no year marker gives no row, a later matching table
\* gives no row, and without a matching table the result is empty.
C14_FirstMatchingTable ==
  Called("parse_titulados_table") =>
    LET doc == unit.arg
        res == unit.ret
    IN /\ Matching(doc) = {} => res = <<>>
       /\ \A i \in 1..Len(doc) :
            (NameMarker(doc[i]) /\ ~YearMarker(doc[i])) => ~RowTaken(res, doc[i])
       /\ Matching(doc) # {} =>
            /\ \A i \in 1..Len(doc) : i # FirstMatch(doc) => ~RowTaken(res, doc[i])
            /\ \A k \in 1..Len(res) :
                 \E r \in 1..Len(doc[FirstMatch(doc)].rows) :
                   /\ Len(doc[FirstMatch(doc)].rows[r]) >= 2
                   /\ res[k].nombre = Strip(doc[FirstMatch(doc)].rows[r][1])

C14_Witness ==
  /\ Called("parse_titulados_table")
  /\ Len(unit.arg) = 3
  /\ NameMarker(unit.arg[1]) /\ ~YearMarker(unit.arg[1])
  /\ Matching(unit.arg) = {2, 3}
  /\ unit.ret = <<[nombre |-> <<"T", "2">>, anio |-> <<"2020">>]>>

\* the rows of a table that have two cells or more, not both empty
Kept(trs) ==
  {r \in 1..Len(trs) :
     Len(trs[r]) >= 2 /\ (Strip(trs[r][1]) # <<>> \/ Strip(trs[r][2]) # <<>>)}
Nth(S, i) == CHOOSE k \in S : Cardinality({j \in S : j <= k}) = i

\* C20: the rows returned are, in document order, the rows after the first
\* row of the selected table that have at least two cells, not both empty:
\* the i-th returned row carries the text of the first and of the second cell
\* of the i-th such row, and no returned row has both fields empty.
C20_RowsOfTable ==
  (Called("parse_titulados_table") /\ Matching(unit.arg) # {}) =>
    LET trs == unit.arg[FirstMatch(unit.arg)].rows
        res == unit.ret
    IN /\ Len(res) = Cardinality(Kept(trs))
       /\ \A i \in 1..Len(res) :
            /\ res[i].nombre = Strip(trs[Nth(Kept(trs), i)][1])
            /\ res[i].anio = Strip(trs[Nth(Kept(trs), i)][2])
            /\ res[i].nombre # <<>> \/ res[i].anio # <<>>

C20_Witness ==
  /\ Called("parse_titulados_table")
  /\ Len(unit.arg) = 1
  /\ Len(unit.arg[1].rows) = 3
  /\ Len(unit.arg[1].rows[1]) = 1
  /\ unit.arg[1].rows[2] = << <<" ">>, <<" ", " ">> >>
  /\ unit.ret = <<[nombre |-> <<"N", "3">>, anio |-> <<"20", "3">>]>>

(* ---- split_name on its own ---- *)
TokenKinds == {<<"GARC", "Í", "A">>, <<"L", "Ó", "PEZ">>, <<"DE">>}
GapKinds == {<<" ">>, <<" ", " ">>, <<"\t">>}
PadKinds == {<<>>, <<" ">>}

\* a full name: the tokens with the gap between them and the pads around them
FullName(tokens, gap, lead, trail) == lead \o Join(gap, tokens) \o trail

Names ==
  {[name |-> FullName(ts, g, l, t), tokens |-> ts] :
     ts \in SeqsUpTo(TokenKinds, MaxTokens), g \in GapKinds, l \in PadKinds, t \in PadKinds}

SplitArg(a) == split_name(a.name)
InitSplit == IdleMain /\ unit \in Pending("split_name", Names)
ApplySplit == Apply("split_name", SplitArg(unit.arg))
SpecSplit == InitSplit /\ [][ApplySplit]_vars

\* C15: the four fields of split_name are fixed by the token count n of the
\* name: n >= 4 gives (t1, t2, t3, t4..tn joined by single spaces), n = 3
\* (t1, t2, t3, empty), n = 2 (t1, empty, t2, empty), n = 1 (t1, empty,
\* empty, empty), n = 0 four empty fields; gaps and pads change nothing.
C15_ShapeByCount ==
  Called("split_name") =>
    LET t == unit.arg.tokens
        n == Len(t)
        r == unit.ret
        shape(ap, am, pn, sn) ==
          r = [apellido_paterno |-> ap, apellido_materno |-> am,
               primer_nombre |-> pn, segundo_nombre |-> sn]
    IN /\ n >= 4 => shape(t[1], t[2], t[3], Join(<<" ">>, SubSeq(t, 4, n)))
       /\ n = 3 => shape(t[1], t[2], t[3], <<>>)
       /\ n = 2 => shape(t[1], <<>>, t[2], <<>>)
       /\ n = 1 => shape(t[1], <<>>, <<>>, <<>>)
       /\ n = 0 => shape(<<>>, <<>>, <<>>, <<>>)

C15_Witness ==
  /\ Called("split_name")
  /\ unit.arg.name = <<" ", "GARC", "Í", "A", "\t", "DE">>
  /\ unit.ret.apellido_materno = <<>>
  /\ unit.ret.primer_nombre = <<"DE">>

NonEmpty(field) == field # <<>>

\* C16: the non-empty fields paternal, maternal, first name, in this order,
\* followed by the tokens of the second name split again on whitespace, are
\* the tokens of the name, each once and in the order of the name.
C16_NoTokenLost ==
  Called("split_name") =>
    LET r == unit.ret IN
    SelectSeq(<<r.apellido_paterno, r.apellido_materno, r.primer_nombre>>, NonEmpty)
        \o Split(r.segundo_nombre)
      = unit.arg.tokens

C16_Witness ==
  /\ Called("split_name")
  /\ Len(unit.arg.tokens) = 5
  /\ unit.arg.tokens[4] # unit.arg.tokens[5]
  /\ unit.ret.segundo_nombre = unit.arg.tokens[4] \o <<" ">> \o unit.arg.tokens[5]
  /\ Split(unit.ret.segundo_nombre) = SubSeq(unit.arg.tokens, 4, 5)

(* ---- the encoding selection of get_latest_html on its own ---- *)
Codecs == Charsets \cup {"none"}

\* a call and the successful response of its first GET: the body is a listing
\* page in one of the charsets, whatever the headers and the detector say
Fetches ==
  {[call |-> NewCall(FirstListing, f),
    resp |-> Ok(d, a, [enc |-> e, doc |-> ListingDoc(MaxRows)])] :
     f \in Codecs, d \in Codecs, a \in Codecs, e \in Charsets}

FetchArg(a) == get_latest_html(a.call, a.resp)
InitEncoding == IdleMain /\ unit \in Pending("get_latest_html", Fetches)
ApplyEncoding == Apply("get_latest_html", FetchArg(unit.arg))
SpecEncoding == InitEncoding /\ [][ApplyEncoding]_vars

\* C17: a successful response is decoded with the forced encoding when one is
\* given, whatever the server declares; else with the declared charset when
\* there is one, whatever the detector says; the detector's answer is the
\* codec only when neither is given (utf-8 when the detector has no answer).
C17_CodecPriority ==
  Called("get_latest_html") =>
    LET force == unit.arg.call.force
        resp == unit.arg.resp
        ret == unit.ret
    IN /\ ret.state = "returned"
       /\ ret.text = Decode(resp.bytes, ret.codec)
       /\ force # "none" => ret.codec = force
       /\ (force = "none" /\ resp.declared # "none") => ret.codec = resp.declared
       /\ (ret.codec # force /\ ret.codec # resp.declared) =>
            /\ force = "none" /\ resp.declared = "none"
            /\ ret.codec = IF resp.apparent # "none" THEN resp.apparent ELSE "utf-8"

C17_Witness ==
  /\ Called("get_latest_html")
  /\ unit.arg.call.force = "none"
  /\ unit.arg.resp.declared = "iso-8859-1"
  /\ unit.arg.resp.apparent = "utf-8"
  /\ unit.arg.resp.bytes.enc = "iso-8859-1"
  /\ unit.ret.codec = "iso-8859-1"
  /\ unit.ret.text = ListingDoc(MaxRows)

(* ---- the file scrape_career writes ---- *)
\* scrape_career called for two categories: the page of the first has 0 to
\* MaxRecords rows and declares its charset, or declares none and is
\* misdetected; the page of the second is served at the first GET
InitPersist ==
  /\ web = [index |-> {},
            first |-> ListingResponses({"timeout", "http_status"}, 0..MaxRecords,
                                       1..MaxRecords),
            listing |-> ListingResponses({}, {MaxRecords}, {})]
  /\ pc = "direct"
  /\ exit = "running"
  /\ idx = NoCall
  /\ careers = <<[name |-> CareerName(1), url |-> FirstListing],
                 [name |-> CareerName(2), url |-> BASE_URL \o <<"/">> \o CareerHref(2)]>>
  /\ task = [c \in 1..2 |-> [NewTask EXCEPT !.st = "queued"]]
  /\ queue = <<1, 2>>
  /\ results = <<>>
  /\ collected = <<>>
  /\ out = <<>>
  /\ files = <<>>
  /\ unit = NoUnit

SpecPersist == InitPersist /\ [][NextCareer]_vars

\* the record of a parsed row
Record(row) ==
  LET parts == split_name(row.nombre) IN
  <<parts.apellido_paterno, parts.apellido_materno, parts.primer_nombre,
    parts.segundo_nombre, row.anio, row.nombre>>
Columns(rec) ==
  <<rec.apellido_paterno, rec.apellido_materno, rec.primer_nombre,
    rec.segundo_nombre, rec.anio_titulacion, rec.nombre_completo>>
Example == [nombre |-> <<"GARC", "Í", "A", " ", "L", "Ó", "PEZ", " ", "MAR", "Í", "A", " ", "JOS", "É">>,
            anio |-> <<"2020">>]

\* C18: when scrape_career returns, the file of the category holds one record
\* for each parsed row, in the order of the rows: the four fields of
\* split_name, the year text as parsed, the name as parsed; the count
\* returned is the number of records.  For the one row ("GARCÍA LÓPEZ MARÍA
\* JOSÉ", "2020") the record is (GARCÍA, LÓPEZ, MARÍA, JOSÉ, 2020, the name)
\* and the count is 1.
C18_OneRecordPerRow ==
  \A c \in Tasks : Wrote(c) =>
    LET rows == task[c].rows IN
    /\ Sink(c) \in DOMAIN files
    /\ Len(files[Sink(c)]) = Len(rows)
    /\ task[c].result = Len(files[Sink(c)])
    /\ \A r \in 1..Len(rows) : Columns(files[Sink(c)][r]) = Record(rows[r])
    /\ rows = <<Example>> =>
         /\ Columns(files[Sink(c)][1]) =
              << <<"GARC", "Í", "A">>, <<"L", "Ó", "PEZ">>, <<"MAR", "Í", "A">>,
                 <<"JOS", "É">>, <<"2020">>, Example.nombre >>
         /\ task[c].result = 1

C18_Witness ==
  /\ Wrote(1)
  /\ task[1].rows = <<Example, [nombre |-> GradName(2), anio |-> GradYear(2)]>>
  /\ task[1].parses = 2
  /\ Len(files[Sink(1)]) = 2
  /\ files[Sink(1)][2].anio_titulacion = <<"s", "/", "f">>
  /\ files[Sink(1)][1].segundo_nombre = <<"JOS", "É">>

(* ---- the output directory and the workers that fail ---- *)
\* a directory page with two categories: labels that share a file name, or
\* labels that do not; the page of the first category may fail, come with no
\* row, or come misdetected
FrameLabels == SinkLabels \cup { << <<"DERECHO">>, <<"ECONOM", "Í", "A">> >> }

InitFrame ==
  /\ web = [index |-> {Ok("iso-8859-1", "iso-8859-1", Latin(LabelledDoc(ls))) : ls \in FrameLabels},
            first |-> ListingResponses({"timeout"}, 0..MaxRows, {MaxRows}),
            listing |-> ListingResponses({"timeout"}, {MaxRows}, {})]
  /\ InitMain

SpecFrame == InitFrame /\ [][Next]_vars

FailedOnFetch(c) == task[c].exc # None
\* the files of the directory other than the one at path are as they were
SameBut(path) ==
  /\ DOMAIN files' \ {path} = DOMAIN files \ {path}
  /\ \A p \in DOMAIN files \ {path} : files'[p] = files[p]

C21_State ==
  /\ \A c \in Tasks : FailedOnFetch(c) =>
       /\ task[c].pos = "end"
       /\ task[c].exc = RuntimeError(careers[c].url, "timeout")
       /\ task[c].parses = Len(task[c].fetched) - 1
  /\ \A p \in DOMAIN files : \E c \in Tasks : Wrote(c) /\ Sink(c) = p

C21_Step ==
  /\ \A c \in Tasks :
       /\ (~FailedOnFetch(c) /\ task'[c].exc # None) => files' = files
       /\ FailedOnFetch(c) => (task'[c].exc = task[c].exc /\ task'[c].pos = "end")
       /\ Wrote(c) => (task'[c].exc = None /\ task'[c].pos = "end")
  /\ files' # files =>
       \E c \in Tasks :
         /\ task[c].pos = "write" /\ ~FailedOnFetch(c)
         /\ task[c].call = NoCall
         /\ task[c].parses = Len(task[c].fetched)
         /\ task'[c].pos = "end" /\ task'[c].exc = None
         /\ SameBut(Sink(c))

\* C21: a worker whose first fetch or forced-encoding fetch raised changes no
\* file: the step in which it fails writes nothing, it takes no step after
\* it, and it wrote nothing before; every change of the output directory is
\* the one file of a worker whose fetches all returned and were all parsed,
\* and every file of the directory was written by such a worker.
C21_FailedWritesNothing == []C21_State /\ [][C21_Step]_vars

C21_Witness ==
  /\ Len(task) = 2
  /\ FailedOnFetch(1) /\ Len(task[1].fetched) = 2 /\ task[1].parses = 1
  /\ Wrote(2) /\ task[2].result > 0
  /\ Sink(1) # Sink(2)
  /\ DOMAIN files = {Sink(2)}
  /\ pc = "done"

====
